---- MODULE Spec2Model ----
(***************************************************************************)
(* The two retry loops of the "Implementing Retries and Timeouts"          *)
(* notebook (src/unnamed/part_004): the fixed-delay retry loop and         *)
(* get_with_backoff; and the wrapper built by the retry decorator factory  *)
(* (src/generators-decorators/decorators-with-arguments.ipynb); the        *)
(* change_directory context manager (src/unnamed/part_000); the            *)
(* count_up_to generator, its nested loops and the stacked decorators      *)
(* (src/generators-decorators/generators-intro.ipynb).  One run            *)
(* executes one of the programs; `loop` says which.  Durations are         *)
(* integers counted in ticks, Scale ticks to the second, so that the       *)
(* jitter of random.uniform(-0.1*delay, 0.1*delay) is an integer number of *)
(* ticks.                                                                  *)
(***************************************************************************)
EXTENDS Integers, Sequences, FiniteSets, TLC

VARIABLES loop, max_retries, pc, attempt, delay, res, err, log, sleeps,
          returned, raised, out,
          max_attempts, e,
          cwd, dirs, origin_dir, destination, start_dir,
          limit, count_gen, nexts, stops, iters,
          gens, outer_it, inner_it, num, nest,
          callee, frames

\* the variables of the wrapper of retry(max_attempts)
retryVars == <<max_attempts, e>>

\* the variables of change_directory
chdirVars == <<cwd, dirs, origin_dir, destination, start_dir>>

\* the variables only the two nested loops over count_up_to use
nestedVars == <<gens, outer_it, inner_it, num, nest>>

\* the variables of count_up_to
genVars == <<limit, count_gen, nexts, stops, iters, nestedVars>>

\* the variables of the stacked decorators
stackVars == <<callee, frames>>

\* the variables the two loops of part_004 never touch
notHttp == <<retryVars, chdirVars, genVars, stackVars>>

\* the variables only the two loops of part_004 use
httpVars == <<max_retries, delay, res, err, sleeps>>

vars == <<loop, max_retries, pc, attempt, delay, res, err, log, sleeps,
          returned, raised, out, notHttp>>

(* ---------------------------- bounds ----------------------------------- *)

\* get_with_backoff is explored for max_retries in 0..MaxRetriesBound
MaxRetriesBound == 5

\* the jitter is drawn from the 2*JitterRes+1 evenly spaced points of
\* [-0.1*delay, 0.1*delay], both ends included
JitterRes == 1

\* ticks per second
Scale == 10 * JitterRes

\* status codes an attempt can receive: the edges of the three classes
StatusCodes == {200, 399, 400, 499, 500, 599}

\* network exceptions requests.get can raise
NetworkExceptions == {"ConnectTimeout", "ReadTimeout"}

\* the wrapper of retry is explored for max_attempts in 0..MaxAttemptsBound
MaxAttemptsBound == 4

\* exceptions the wrapped function can raise, all subclasses of Exception
\* as the RuntimeError of sometimes_fails
FuncExceptions == {"RuntimeError", "ValueError"}

\* values the wrapped function can return
FuncValues == {"Success!"}

\* the directories that exist whatever the run
BaseDirs == {"/code", "/code/other"}

\* the directory the recorded run creates
TempDir == "/code/temp_dir"

\* the paths that are regular files
Files == {"/code/notes.txt"}

\* the destinations change_directory is called with
Destinations == {TempDir, "/code/other", "/code/notes.txt"}

\* exceptions the body of the with block can raise
BlockExceptions == {"ValueError"}

\* count_up_to is explored for limit in 0..MaxLimit
MaxLimit == 3

\* at most MaxNexts calls of next() on one generator are explored
MaxNexts == 6

\* the two decorated functions, each with its decorator lines from the
\* top one to the one nearest the def
DecoratorLines == [foo |-> <<"A", "B">>, bar |-> <<"B", "A">>]

(* ------------------------ program constants ---------------------------- *)

\* delay=1 at the top of get_with_backoff
BaseDelay == 1

\* the cap in min(delay * 2, 30)
MaxDelay == 30

\* max_retries = 3 of the fixed-delay loop
FixedMaxRetries == 3

\* delay = 2 of the fixed-delay loop
FixedDelay == 2

\* the url of the recorded run
Url == "https://httpbin.org/status/503"

(* ---------------------------- values ----------------------------------- *)

Min(a, b) == IF a <= b THEN a ELSE b

NoResponse == [kind |-> "none", status |-> 0, req |-> 0]

\* the response object of request number n
Response(s, n) == [kind |-> "response", status |-> s, req |-> n]

\* requests.get raised exception x on request number n
Failure(x, n) == [kind |-> x, status |-> 0, req |-> n]

NoError == [type |-> "None", msg |-> "", context |-> NoResponse]

\* `raise exc` while `handling` is the exception being handled: Python
\* stores the handled exception in the __context__ of the new one
Raise(type, msg, handling) ==
    [type |-> type, msg |-> msg, context |-> handling]

\* raise_for_status that lets server errors through
RaiseForStatusOnly4xx(s) == 400 <= s /\ s < 500

\* raise_for_status with the lower edge one class too low
RaiseForStatusFrom300(s) == 300 <= s /\ s < 600

\* res.raise_for_status(): nothing on 1xx, 2xx, 3xx, HTTPError on 4xx/5xx
RaiseForStatus(s) == 400 <= s /\ s < 600

\* the client-error test with the edge one class too low
IsClientErrorBelow400(s) == s < 400

\* the client-error test with an inclusive edge
IsClientErrorUpTo500(s) == s <= 500

\* err.response.status_code < 500
IsClientError(s) == s < 500

\* the jitter without its 0.1 factor: random.uniform(-delay, delay)
JittersWholeDelay(d) == {10 * k * d : k \in (0 - JitterRes)..JitterRes}

\* random.uniform(-0.1 * delay, 0.1 * delay), in ticks
Jitters(d) == {k * d : k \in (0 - JitterRes)..JitterRes}

\* the doubling without its cap: delay * 2
NextDelayUncapped(d) == d * 2

\* min(delay * 2, 30)
NextDelay(d) == Min(d * 2, MaxDelay)

\* wait = min(delay * 2, 30) + jitter, in ticks
Wait(d, j) == Min(d * 2, MaxDelay) * Scale + j

\* the loop over range(1, max_retries + 2)
RangeOneTooMany(a, m) == a + 1 < m + 2

\* the loop over range(1, max_retries)
RangeStopsEarly(a, m) == a + 1 < m

\* range(1, max_retries + 1) has a value after a
RangeHasNext(a, m) == a + 1 < m + 1

\* RuntimeError(f"Client error! Please review request.")
ClientErrorMsg == "Client error! Please review request."

\* RuntimeError(f"All retries to query {url} failed!")
ExhaustedMsg(u) == <<"All retries to query ", u, " failed!">>

\* the exhaustion error raised `from` the last response
ExhaustedErrorChained == Raise("RuntimeError", ExhaustedMsg(Url), res)

\* the exception raised after the for loop of get_with_backoff: the raise
\* is outside every except clause, so nothing is being handled
ExhaustedError == Raise("RuntimeError", ExhaustedMsg(Url), NoResponse)

\* the exception raised in the except clause for a client error
ClientError(x) == Raise("RuntimeError", <<ClientErrorMsg>>, x)

\* the value func(*args, **kwargs) returned on call number n
Returned(v, n) == [kind |-> "return", value |-> v, call |-> n]

\* the exception object func(*args, **kwargs) raised on call number n
FuncError(t, n) ==
    [type |-> t, msg |-> <<"Flaky failure">>, context |-> NoResponse,
     call |-> n]

\* func(*args, **kwargs) raised exception object x
Raised(x) == [kind |-> "exception", exc |-> x, call |-> x.call]

\* a function that ends without a return statement returns None
NoneValue == [kind |-> "return", value |-> "None", call |-> 0]

\* the wrapper's test with the last attempt one too late
IsLastAttemptOffByOne(a, m) == a = m + 1

\* the wrapper's test true on every attempt
IsLastAttemptAny(a, m) == a >= 1

\* if attempt == max_attempts
IsLastAttempt(a, m) == a = m

(* ------------------------- change_directory --------------------------- *)

\* os.makedirs(destination, exist_ok=True) raises FileExistsError when the
\* path exists and is not a directory
MakedirsFails(d) == d \in Files

\* the directories after os.makedirs(destination, exist_ok=True)
Makedirs(ds, d) == ds \cup {d}

(* ---------------------------- count_up_to ------------------------------ *)

\* the generator object count_up_to(limit) returns: no line of the body
\* has run
NewGenerator == [state |-> "created", n |-> 0]

\* next() on a generator that starts again from 1 after it has finished
GenNextRestarts(g, lim) ==
    LET n1 == IF g.state = "suspended" THEN g.n + 1 ELSE 1
    IN  IF n1 <= lim
        THEN [gen |-> [state |-> "suspended", n |-> n1],
              yielded |-> TRUE, value |-> n1]
        ELSE [gen |-> [state |-> "finished", n |-> n1],
              yielded |-> FALSE, value |-> 0]

\* next() on a generator of count_up_to(lim): the body runs from where it
\* was (n = 1 at the start, n += 1 after a yield) to the next `yield n` or
\* to its end, which raises StopIteration; a finished generator raises
\* StopIteration at once
GenNext(g, lim) ==
    LET n1 == IF g.state = "created" THEN 1 ELSE g.n + 1
    IN  IF g.state = "finished"
        THEN [gen |-> g, yielded |-> FALSE, value |-> 0]
        ELSE IF n1 <= lim
             THEN [gen |-> [state |-> "suspended", n |-> n1],
                   yielded |-> TRUE, value |-> n1]
             ELSE [gen |-> [state |-> "finished", n |-> n1],
                   yielded |-> FALSE, value |-> 0]

\* what the body prints during that call of next()
GenPrints(g, lim) ==
    LET r == GenNext(g, lim)
    IN  (IF g.state = "created" THEN <<<<"Generator function started...">>>>
         ELSE IF g.state = "suspended"
              THEN <<<<"Resumed after yielding", g.n>>>>
              ELSE <<>>)
        \o (IF r.yielded THEN <<<<"Yielding", r.value>>>>
            ELSE IF g.state # "finished"
                 THEN <<<<"Generator function finished.">>>>
                 ELSE <<>>)

(* -------------------------- stacked decorators ------------------------- *)

\* the undecorated function object
Body(name) == [kind |-> "body", name |-> name]

\* decorator_A(func) / decorator_B(func): the wrapper around func
Wrapper(dec, func) == [kind |-> "wrapper", dec |-> dec, func |-> func]

\* the decorator lines applied from the top one down
RECURSIVE DecorateTopDown(_, _)
DecorateTopDown(lines, func) ==
    IF lines = <<>> THEN func
    ELSE DecorateTopDown(Tail(lines), Wrapper(Head(lines), func))

\* the function object bound to the name after `@d1 @d2 ... def f`: the
\* decorator nearest the def is applied first, the top one last
RECURSIVE Decorate(_, _)
Decorate(lines, func) ==
    IF lines = <<>> THEN func
    ELSE Wrapper(Head(lines), Decorate(Tail(lines), func))

(* ----------------------------- Init ------------------------------------ *)

\* the programs a run can execute
Programs ==
    {"backoff", "fixed", "retry", "chdir", "count", "nested", "stack"}

\* the two loops of part_004 are not running
HttpIdle == max_retries = 0 /\ delay = 0

\* no wrapper of retry is running
RetryIdle == max_attempts = 0

\* no with block of change_directory is running
ChdirIdle ==
    /\ dirs = {}
    /\ cwd = ""
    /\ destination = ""

\* no generator of count_up_to exists
GenIdle == limit = 0

\* the cell of the nested loops is not running
NestedIdle == gens = <<>> /\ outer_it = 0

\* no decorated function is called
StackIdle == callee = "" /\ frames = <<>>

\* the statement each program starts at
StartPc ==
    [backoff |-> "for", fixed |-> "for", retry |-> "for", chdir |-> "with",
     count |-> "idle", nested |-> "outer", stack |-> "call"]

Init ==
    /\ loop \in Programs
    /\ IF loop = "chdir"
       THEN /\ dirs \in {BaseDirs, BaseDirs \cup {TempDir}}
            /\ cwd \in dirs
            /\ destination \in Destinations
       ELSE ChdirIdle
    /\ start_dir = cwd
    /\ origin_dir = ""
    /\ IF loop \in {"count", "nested"} THEN limit \in 0..MaxLimit
                                        ELSE GenIdle
    /\ IF loop = "nested" THEN /\ gens = <<NewGenerator>>
                               /\ outer_it = 1
                          ELSE NestedIdle
    /\ inner_it = 0
    /\ num = 0
    /\ nest = 1
    /\ count_gen = NewGenerator
    /\ nexts = 0
    /\ stops = 0
    /\ iters = 0
    /\ IF loop = "stack"
       THEN /\ callee \in DOMAIN DecoratorLines
            /\ frames = <<[func |-> Decorate(DecoratorLines[callee],
                                             Body(callee)),
                           at |-> "before"]>>
       ELSE StackIdle
    /\ IF loop \in {"backoff", "fixed"}
       THEN /\ max_retries \in (IF loop = "fixed" THEN {FixedMaxRetries}
                                                  ELSE 0..MaxRetriesBound)
            /\ delay = (IF loop = "fixed" THEN FixedDelay ELSE BaseDelay)
       ELSE HttpIdle
    /\ IF loop = "retry" THEN max_attempts \in 0..MaxAttemptsBound
                          ELSE RetryIdle
    /\ e = NoError
    /\ pc = StartPc[loop]
    /\ attempt = 0
    /\ res = NoResponse
    /\ err = NoResponse
    /\ log = <<>>
    /\ sleeps = <<>>
    /\ returned = NoResponse
    /\ raised = NoError
    /\ out = <<>>

(* ------------------------ get_with_backoff ----------------------------- *)

\* for attempt in range(1, max_retries + 1): next value; print("Attempt ...")
ForNext ==
    /\ loop = "backoff"
    /\ pc = "for"
    /\ RangeHasNext(attempt, max_retries)
    /\ attempt' = attempt + 1
    /\ out' = Append(out, "attempt")
    /\ pc' = "try"
    /\ UNCHANGED notHttp
    /\ UNCHANGED <<loop, max_retries, delay, res, err, log, sleeps,
                   returned, raised>>

\* the range is used up: raise RuntimeError("All retries to query ...")
ForExhausted ==
    /\ loop = "backoff"
    /\ pc = "for"
    /\ ~RangeHasNext(attempt, max_retries)
    /\ raised' = ExhaustedError
    /\ pc' = "raised"
    /\ UNCHANGED notHttp
    /\ UNCHANGED <<loop, max_retries, attempt, delay, res, err, log, sleeps,
                   returned, out>>

\* requests.get returns a response that raise_for_status accepts:
\* print("Succeeded ..."); return res
RequestSucceeds ==
    /\ loop = "backoff"
    /\ pc = "try"
    /\ \E s \in StatusCodes :
          /\ ~RaiseForStatus(s)
          /\ res' = Response(s, Len(log) + 1)
          /\ log' = Append(log, res')
          /\ returned' = res'
    /\ out' = Append(out, "succeeded")
    /\ pc' = "returned"
    /\ UNCHANGED notHttp
    /\ UNCHANGED <<loop, max_retries, attempt, delay, err, sleeps, raised>>

\* requests.get returns a response on which raise_for_status raises
\* HTTPError: control enters `except requests.exceptions.HTTPError as err`
RequestHTTPError ==
    /\ loop = "backoff"
    /\ pc = "try"
    /\ \E s \in StatusCodes :
          /\ RaiseForStatus(s)
          /\ res' = Response(s, Len(log) + 1)
          /\ log' = Append(log, res')
          /\ err' = res'
    /\ pc' = "except"
    /\ UNCHANGED notHttp
    /\ UNCHANGED <<loop, max_retries, attempt, delay, sleeps, returned,
                   raised, out>>

\* requests.get raises a network exception: no except clause matches, the
\* exception leaves get_with_backoff
RequestRaises ==
    /\ loop = "backoff"
    /\ pc = "try"
    /\ \E x \in NetworkExceptions :
          /\ log' = Append(log, Failure(x, Len(log) + 1))
          /\ raised' = Raise(x, <<>>, NoResponse)
    /\ pc' = "raised"
    /\ UNCHANGED notHttp
    /\ UNCHANGED <<loop, max_retries, attempt, delay, res, err, sleeps,
                   returned, out>>

\* if err.response.status_code < 500: print(...); raise RuntimeError(...)
ExceptClient ==
    /\ loop = "backoff"
    /\ pc = "except"
    /\ IsClientError(err.status)
    /\ out' = Append(out, "client_error")
    /\ raised' = ClientError(err)
    /\ pc' = "raised"
    /\ UNCHANGED notHttp
    /\ UNCHANGED <<loop, max_retries, attempt, delay, res, err, log, sleeps,
                   returned>>

\* the server-error branch without its time.sleep(wait): the next attempt
\* follows at once
ExceptServerNoSleep ==
    /\ loop = "backoff"
    /\ pc = "except"
    /\ ~IsClientError(err.status)
    /\ out' = Append(out, "server_error")
    /\ delay' = NextDelay(delay)
    /\ err' = NoResponse
    /\ pc' = "for"
    /\ UNCHANGED notHttp
    /\ UNCHANGED <<loop, max_retries, attempt, res, log, sleeps, returned,
                   raised>>

\* else: jitter = ...; wait = ...; print(...); time.sleep(wait) is entered
ExceptServer ==
    /\ loop = "backoff"
    /\ pc = "except"
    /\ ~IsClientError(err.status)
    /\ \E j \in Jitters(delay) :
          sleeps' = Append(sleeps, [after |-> attempt,
                                    delay |-> delay,
                                    jitter |-> j,
                                    wait |-> Wait(delay, j)])
    /\ out' = Append(out, "server_error")
    /\ pc' = "sleep"
    /\ UNCHANGED notHttp
    /\ UNCHANGED <<loop, max_retries, attempt, delay, res, err, log,
                   returned, raised>>

\* the update that stores the jittered wait, in whole seconds, as the new
\* delay: delay = wait
SleepDoneStoresWait ==
    /\ loop = "backoff"
    /\ pc = "sleep"
    /\ delay' = sleeps[Len(sleeps)].wait \div Scale
    /\ err' = NoResponse
    /\ pc' = "for"
    /\ UNCHANGED notHttp
    /\ UNCHANGED <<loop, max_retries, attempt, res, log, sleeps, returned,
                   raised, out>>

\* time.sleep(wait) returns; delay = min(delay * 2, 30); the except clause
\* ends, which unbinds err
SleepDone ==
    /\ loop = "backoff"
    /\ pc = "sleep"
    /\ delay' = NextDelay(delay)
    /\ err' = NoResponse
    /\ pc' = "for"
    /\ UNCHANGED notHttp
    /\ UNCHANGED <<loop, max_retries, attempt, res, log, sleeps, returned,
                   raised, out>>

(* ------------------------ fixed-delay loop ----------------------------- *)

\* for attempt in range(1, max_retries + 1): next value; print("Attempt ...")
FixedForNext ==
    /\ loop = "fixed"
    /\ pc = "for"
    /\ RangeHasNext(attempt, max_retries)
    /\ attempt' = attempt + 1
    /\ out' = Append(out, "attempt")
    /\ pc' = "try"
    /\ UNCHANGED notHttp
    /\ UNCHANGED <<loop, max_retries, delay, res, err, log, sleeps,
                   returned, raised>>

\* the range is used up without a break: the else clause of the for loop
\* prints "All {max_retries} attempts failed!"
FixedForElse ==
    /\ loop = "fixed"
    /\ pc = "for"
    /\ ~RangeHasNext(attempt, max_retries)
    /\ out' = Append(out, "all_failed")
    /\ pc' = "done"
    /\ UNCHANGED notHttp
    /\ UNCHANGED <<loop, max_retries, attempt, delay, res, err, log, sleeps,
                   returned, raised>>

\* the response passes raise_for_status: print("Succeeded ..."); break
FixedRequestSucceeds ==
    /\ loop = "fixed"
    /\ pc = "try"
    /\ \E s \in StatusCodes :
          /\ ~RaiseForStatus(s)
          /\ res' = Response(s, Len(log) + 1)
          /\ log' = Append(log, res')
    /\ out' = Append(out, "succeeded")
    /\ pc' = "done"
    /\ UNCHANGED notHttp
    /\ UNCHANGED <<loop, max_retries, attempt, delay, err, sleeps, returned,
                   raised>>

\* raise_for_status raises HTTPError: control enters the except clause
FixedRequestHTTPError ==
    /\ loop = "fixed"
    /\ pc = "try"
    /\ \E s \in StatusCodes :
          /\ RaiseForStatus(s)
          /\ res' = Response(s, Len(log) + 1)
          /\ log' = Append(log, res')
          /\ err' = res'
    /\ pc' = "except"
    /\ UNCHANGED notHttp
    /\ UNCHANGED <<loop, max_retries, attempt, delay, sleeps, returned,
                   raised, out>>

\* requests.get raises a network exception: no except clause matches, the
\* exception leaves the loop (the else clause does not run)
FixedRequestRaises ==
    /\ loop = "fixed"
    /\ pc = "try"
    /\ \E x \in NetworkExceptions :
          /\ log' = Append(log, Failure(x, Len(log) + 1))
          /\ raised' = Raise(x, <<>>, NoResponse)
    /\ pc' = "raised"
    /\ UNCHANGED notHttp
    /\ UNCHANGED <<loop, max_retries, attempt, delay, res, err, sleeps,
                   returned, out>>

\* if err.response.status_code < 500: print(...); break
FixedExceptClient ==
    /\ loop = "fixed"
    /\ pc = "except"
    /\ IsClientError(err.status)
    /\ out' = Append(out, "client_error")
    /\ err' = NoResponse
    /\ pc' = "done"
    /\ UNCHANGED notHttp
    /\ UNCHANGED <<loop, max_retries, attempt, delay, res, log, sleeps,
                   returned, raised>>

\* else: print("Failed with server error code ..."); the except clause ends
FixedExceptServer ==
    /\ loop = "fixed"
    /\ pc = "except"
    /\ ~IsClientError(err.status)
    /\ out' = Append(out, "server_error")
    /\ err' = NoResponse
    /\ pc' = "if"
    /\ UNCHANGED notHttp
    /\ UNCHANGED <<loop, max_retries, attempt, delay, res, log, sleeps,
                   returned, raised>>

\* the wait without its `if attempt < max_retries` guard
FixedWaitAlways ==
    /\ loop = "fixed"
    /\ pc = "if"
    /\ out' = Append(out, "waiting")
    /\ sleeps' = Append(sleeps, [after |-> attempt,
                                 delay |-> delay,
                                 jitter |-> 0,
                                 wait |-> delay * Scale])
    /\ pc' = "sleep"
    /\ UNCHANGED notHttp
    /\ UNCHANGED <<loop, max_retries, attempt, delay, res, err, log,
                   returned, raised>>

\* if attempt < max_retries: print("Waiting ..."); time.sleep(delay) is
\* entered
FixedWait ==
    /\ loop = "fixed"
    /\ pc = "if"
    /\ attempt < max_retries
    /\ out' = Append(out, "waiting")
    /\ sleeps' = Append(sleeps, [after |-> attempt,
                                 delay |-> delay,
                                 jitter |-> 0,
                                 wait |-> delay * Scale])
    /\ pc' = "sleep"
    /\ UNCHANGED notHttp
    /\ UNCHANGED <<loop, max_retries, attempt, delay, res, err, log,
                   returned, raised>>

\* attempt < max_retries is false: the loop body ends without a wait
FixedNoWait ==
    /\ loop = "fixed"
    /\ pc = "if"
    /\ ~(attempt < max_retries)
    /\ pc' = "for"
    /\ UNCHANGED notHttp
    /\ UNCHANGED <<loop, max_retries, attempt, delay, res, err, log, sleeps,
                   returned, raised, out>>

\* time.sleep(delay) returns
FixedSleepDone ==
    /\ loop = "fixed"
    /\ pc = "sleep"
    /\ pc' = "for"
    /\ UNCHANGED notHttp
    /\ UNCHANGED <<loop, max_retries, attempt, delay, res, err, log, sleeps,
                   returned, raised, out>>

(* --------------------- wrapper of retry(max_attempts) ------------------ *)

\* for attempt in range(1, max_attempts + 1): next value
WrapperForNext ==
    /\ loop = "retry"
    /\ pc = "for"
    /\ RangeHasNext(attempt, max_attempts)
    /\ attempt' = attempt + 1
    /\ pc' = "try"
    /\ UNCHANGED <<loop, log, returned, raised, out, max_attempts, e,
                   httpVars, chdirVars, genVars, stackVars>>

\* the range is used up: the wrapper ends without a return statement
WrapperForEnd ==
    /\ loop = "retry"
    /\ pc = "for"
    /\ ~RangeHasNext(attempt, max_attempts)
    /\ returned' = NoneValue
    /\ pc' = "returned"
    /\ UNCHANGED <<loop, attempt, log, raised, out, max_attempts, e,
                   httpVars, chdirVars, genVars, stackVars>>

\* print("Attempt ..."); return func(*args, **kwargs): func returns
FuncReturns ==
    /\ loop = "retry"
    /\ pc = "try"
    /\ \E v \in FuncValues :
          /\ log' = Append(log, Returned(v, Len(log) + 1))
          /\ returned' = Returned(v, Len(log) + 1)
    /\ out' = Append(out, "attempt")
    /\ pc' = "returned"
    /\ UNCHANGED <<loop, attempt, raised, max_attempts, e, httpVars,
                   chdirVars, genVars, stackVars>>

\* print("Attempt ..."); func(*args, **kwargs) raises: control enters
\* `except Exception as e`
FuncRaises ==
    /\ loop = "retry"
    /\ pc = "try"
    /\ \E t \in FuncExceptions :
          /\ log' = Append(log, Raised(FuncError(t, Len(log) + 1)))
          /\ e' = FuncError(t, Len(log) + 1)
    /\ out' = Append(out, "attempt")
    /\ pc' = "except"
    /\ UNCHANGED <<loop, attempt, returned, raised, max_attempts, httpVars,
                   chdirVars, genVars, stackVars>>

\* print(" Error: ..."); if attempt == max_attempts: raise
WrapperReraise ==
    /\ loop = "retry"
    /\ pc = "except"
    /\ IsLastAttempt(attempt, max_attempts)
    /\ out' = Append(out, "error")
    /\ raised' = e
    /\ pc' = "raised"
    /\ UNCHANGED <<loop, attempt, log, returned, max_attempts, e, httpVars,
                   chdirVars, genVars, stackVars>>

\* print(" Error: ..."); attempt == max_attempts is false: the except
\* clause ends, which unbinds e
WrapperSwallow ==
    /\ loop = "retry"
    /\ pc = "except"
    /\ ~IsLastAttempt(attempt, max_attempts)
    /\ out' = Append(out, "error")
    /\ e' = NoError
    /\ pc' = "for"
    /\ UNCHANGED <<loop, attempt, log, returned, raised, max_attempts,
                   httpVars, chdirVars, genVars, stackVars>>

(* ---------------------- with change_directory(...) --------------------- *)

\* __enter__: origin_dir = os.getcwd(); print; os.makedirs(destination,
\* exist_ok=True); os.chdir(destination); yield os.getcwd(): the body of
\* the with block is entered
CdEnter ==
    /\ loop = "chdir"
    /\ pc = "with"
    /\ ~MakedirsFails(destination)
    /\ origin_dir' = cwd
    /\ dirs' = Makedirs(dirs, destination)
    /\ cwd' = destination
    /\ out' = out \o <<"Changing into", "Inside">>
    /\ pc' = "block"
    /\ UNCHANGED <<loop, attempt, log, returned, raised, destination,
                   start_dir, httpVars, retryVars, genVars, stackVars>>

\* __enter__: os.makedirs raises inside the try: the finally clause prints
\* and calls os.chdir(origin_dir), then the exception leaves the with
\* statement, whose body is never entered
CdEnterFails ==
    /\ loop = "chdir"
    /\ pc = "with"
    /\ MakedirsFails(destination)
    /\ origin_dir' = cwd
    /\ cwd' = origin_dir'
    /\ out' = out \o <<"Changing into", "Reverting to original dir">>
    /\ raised' = Raise("FileExistsError", <<destination>>, NoResponse)
    /\ pc' = "raised"
    /\ UNCHANGED <<loop, attempt, log, returned, dirs, destination,
                   start_dir, httpVars, retryVars, genVars, stackVars>>

\* the body of the with block calls os.chdir(d)
BlockChdir ==
    /\ loop = "chdir"
    /\ pc = "block"
    /\ \E d \in dirs : d # cwd /\ cwd' = d
    /\ UNCHANGED <<loop, pc, attempt, log, returned, raised, out, dirs,
                   origin_dir, destination, start_dir, httpVars, retryVars,
                   genVars, stackVars>>

\* the exception of the body is thrown into the generator at the yield,
\* no finally clause runs, the exception leaves the with statement
BlockRaisesNoFinally ==
    /\ loop = "chdir"
    /\ pc = "block"
    /\ \E x \in BlockExceptions :
          raised' = Raise(x, <<"Simulated problem">>, NoResponse)
    /\ pc' = "raised"
    /\ UNCHANGED <<loop, attempt, log, returned, out, cwd, dirs, origin_dir,
                   destination, start_dir, httpVars, retryVars, genVars,
                   stackVars>>

\* the body ends: __exit__ resumes the generator after the yield, the
\* finally clause prints and calls os.chdir(origin_dir), the generator ends
BlockEnds ==
    /\ loop = "chdir"
    /\ pc = "block"
    /\ cwd' = origin_dir
    /\ out' = Append(out, "Reverting to original dir")
    /\ pc' = "done"
    /\ UNCHANGED <<loop, attempt, log, returned, raised, dirs, origin_dir,
                   destination, start_dir, httpVars, retryVars, genVars,
                   stackVars>>

\* the body raises: __exit__ throws the exception into the generator at the
\* yield, the finally clause prints and calls os.chdir(origin_dir), the
\* exception leaves the with statement
BlockRaises ==
    /\ loop = "chdir"
    /\ pc = "block"
    /\ \E x \in BlockExceptions :
          raised' = Raise(x, <<"Simulated problem">>, NoResponse)
    /\ cwd' = origin_dir
    /\ out' = Append(out, "Reverting to original dir")
    /\ pc' = "raised"
    /\ UNCHANGED <<loop, attempt, log, returned, dirs, origin_dir,
                   destination, start_dir, httpVars, retryVars, genVars,
                   stackVars>>

(* ----------------------- uses of count_up_to(limit) -------------------- *)

\* next(count_gen) yields a value
NextYields ==
    /\ loop = "count"
    /\ pc = "idle"
    /\ nexts < MaxNexts
    /\ GenNext(count_gen, limit).yielded
    /\ count_gen' = GenNext(count_gen, limit).gen
    /\ log' = Append(log, GenNext(count_gen, limit).value)
    /\ out' = out \o GenPrints(count_gen, limit)
    /\ nexts' = nexts + 1
    /\ UNCHANGED <<loop, pc, attempt, returned, raised, limit, stops, iters,
                   httpVars, retryVars, chdirVars, stackVars, nestedVars>>

\* next(count_gen) raises StopIteration
NextStops ==
    /\ loop = "count"
    /\ pc = "idle"
    /\ nexts < MaxNexts
    /\ ~GenNext(count_gen, limit).yielded
    /\ count_gen' = GenNext(count_gen, limit).gen
    /\ out' = out \o GenPrints(count_gen, limit)
    /\ nexts' = nexts + 1
    /\ stops' = stops + 1
    /\ UNCHANGED <<loop, pc, attempt, log, returned, raised, limit, iters,
                   httpVars, retryVars, chdirVars, stackVars, nestedVars>>

\* for number in count_gen: the loop starts
GenForStart ==
    /\ loop = "count"
    /\ pc = "idle"
    /\ nexts < MaxNexts
    /\ iters' = 0
    /\ pc' = "for"
    /\ UNCHANGED <<loop, attempt, log, returned, raised, out, limit,
                   count_gen, nexts, stops, httpVars, retryVars, chdirVars,
                   stackVars, nestedVars>>

\* the for loop calls next(count_gen), gets a value and runs its body:
\* print(number)
GenForIteration ==
    /\ loop = "count"
    /\ pc = "for"
    /\ nexts < MaxNexts
    /\ GenNext(count_gen, limit).yielded
    /\ count_gen' = GenNext(count_gen, limit).gen
    /\ log' = Append(log, GenNext(count_gen, limit).value)
    /\ out' = out \o GenPrints(count_gen, limit)
               \o <<<<"number", GenNext(count_gen, limit).value>>>>
    /\ nexts' = nexts + 1
    /\ iters' = iters + 1
    /\ UNCHANGED <<loop, pc, attempt, returned, raised, limit, stops,
                   httpVars, retryVars, chdirVars, stackVars, nestedVars>>

\* the for loop calls next(count_gen), which raises StopIteration: the loop
\* ends
GenForEnd ==
    /\ loop = "count"
    /\ pc = "for"
    /\ nexts < MaxNexts
    /\ ~GenNext(count_gen, limit).yielded
    /\ count_gen' = GenNext(count_gen, limit).gen
    /\ out' = out \o GenPrints(count_gen, limit)
    /\ nexts' = nexts + 1
    /\ stops' = stops + 1
    /\ pc' = "idle"
    /\ UNCHANGED <<loop, attempt, log, returned, raised, limit, iters,
                   httpVars, retryVars, chdirVars, stackVars, nestedVars>>

(* ------------------- nested loops over count_up_to --------------------- *)

\* what the nested-loop actions leave alone
notNested ==
    <<loop, attempt, returned, raised, limit, count_gen, nexts, stops,
      httpVars, retryVars, chdirVars, stackVars>>

\* the outer for statement calls next() on its iterator, gets a value,
\* binds num and enters its body
OuterNext ==
    /\ loop = "nested"
    /\ pc = "outer"
    /\ GenNext(gens[outer_it], limit).yielded
    /\ gens' = [gens EXCEPT ![outer_it] = GenNext(gens[outer_it], limit).gen]
    /\ num' = GenNext(gens[outer_it], limit).value
    /\ out' = out \o GenPrints(gens[outer_it], limit)
    /\ iters' = iters + 1
    /\ pc' = "inner_iter"
    /\ UNCHANGED <<log, inner_it, outer_it, nest>>
    /\ UNCHANGED notNested

\* the outer for statement calls next() on its iterator, which raises
\* StopIteration: the first pair of loops is followed by the second, the
\* second ends the cell
OuterEnd ==
    /\ loop = "nested"
    /\ pc = "outer"
    /\ ~GenNext(gens[outer_it], limit).yielded
    /\ gens' = [gens EXCEPT ![outer_it] = GenNext(gens[outer_it], limit).gen]
    /\ out' = out \o GenPrints(gens[outer_it], limit)
    /\ pc' = IF nest = 1 THEN "between" ELSE "done"
    /\ UNCHANGED <<log, iters, inner_it, outer_it, num, nest>>
    /\ UNCHANGED notNested

\* for num in count_up_to(5): the second outer loop iterates over a
\* generator object of its own
DistinctLoopStart ==
    /\ loop = "nested"
    /\ pc = "between"
    /\ gens' = Append(gens, NewGenerator)
    /\ outer_it' = Len(gens) + 1
    /\ nest' = 2
    /\ iters' = 0
    /\ pc' = "outer"
    /\ UNCHANGED <<log, out, inner_it, num>>
    /\ UNCHANGED notNested

\* an inner for statement that iterates over a new generator object
\* whatever its iterable is
InnerIterAlwaysFresh ==
    /\ loop = "nested"
    /\ pc = "inner_iter"
    /\ gens' = Append(gens, NewGenerator)
    /\ inner_it' = Len(gens) + 1
    /\ pc' = "inner"
    /\ UNCHANGED <<log, out, iters, outer_it, num, nest>>
    /\ UNCHANGED notNested

\* the inner for statement evaluates its iterable: in the first pair of
\* loops `count_gen`, the object the outer loop iterates over (iter() of a
\* generator is the generator itself); in the second `count_up_to(5)`, a
\* new generator object
InnerIter ==
    /\ loop = "nested"
    /\ pc = "inner_iter"
    /\ IF nest = 1
       THEN /\ gens' = gens
            /\ inner_it' = outer_it
       ELSE /\ gens' = Append(gens, NewGenerator)
            /\ inner_it' = Len(gens) + 1
    /\ pc' = "inner"
    /\ UNCHANGED <<log, out, iters, outer_it, num, nest>>
    /\ UNCHANGED notNested

\* the inner for statement calls next() on its iterator, gets a value,
\* binds num2 and runs its body: print(f" - {num}:{num2}")
InnerNext ==
    /\ loop = "nested"
    /\ pc = "inner"
    /\ GenNext(gens[inner_it], limit).yielded
    /\ gens' = [gens EXCEPT ![inner_it] = GenNext(gens[inner_it], limit).gen]
    /\ log' = Append(log, <<num, GenNext(gens[inner_it], limit).value>>)
    /\ out' = out \o GenPrints(gens[inner_it], limit)
               \o <<<<"pair", num, GenNext(gens[inner_it], limit).value>>>>
    /\ UNCHANGED <<pc, iters, inner_it, outer_it, num, nest>>
    /\ UNCHANGED notNested

\* the inner for statement calls next() on its iterator, which raises
\* StopIteration: the body of the outer loop is over
InnerEnd ==
    /\ loop = "nested"
    /\ pc = "inner"
    /\ ~GenNext(gens[inner_it], limit).yielded
    /\ gens' = [gens EXCEPT ![inner_it] = GenNext(gens[inner_it], limit).gen]
    /\ out' = out \o GenPrints(gens[inner_it], limit)
    /\ pc' = "outer"
    /\ UNCHANGED <<log, iters, inner_it, outer_it, num, nest>>
    /\ UNCHANGED notNested

(* ----------------------- calls of foo() and bar() ---------------------- *)

\* the frame on top of the call stack
Top == frames[Len(frames)]

\* wrapper: print("A before") / print("B before"); func(*args, **kwargs)
\* is called
WrapperBefore ==
    /\ loop = "stack"
    /\ pc = "call"
    /\ frames # <<>>
    /\ Top.func.kind = "wrapper"
    /\ Top.at = "before"
    /\ out' = Append(out, <<Top.func.dec, "before">>)
    /\ frames' = Append([frames EXCEPT ![Len(frames)].at = "after"],
                        [func |-> Top.func.func, at |-> "before"])
    /\ UNCHANGED <<loop, pc, attempt, log, returned, raised, callee,
                   httpVars, retryVars, chdirVars, genVars>>

\* the undecorated function: print("  >>> inside function ..."); it returns
FunctionBody ==
    /\ loop = "stack"
    /\ pc = "call"
    /\ frames # <<>>
    /\ Top.func.kind = "body"
    /\ out' = Append(out, <<"inside function", Top.func.name>>)
    /\ frames' = SubSeq(frames, 1, Len(frames) - 1)
    /\ pc' = IF Len(frames) = 1 THEN "done" ELSE "call"
    /\ UNCHANGED <<loop, attempt, log, returned, raised, callee, httpVars,
                   retryVars, chdirVars, genVars>>

\* wrapper: func has returned; print("A after") / print("B after");
\* return result
WrapperAfter ==
    /\ loop = "stack"
    /\ pc = "call"
    /\ frames # <<>>
    /\ Top.func.kind = "wrapper"
    /\ Top.at = "after"
    /\ out' = Append(out, <<Top.func.dec, "after">>)
    /\ frames' = SubSeq(frames, 1, Len(frames) - 1)
    /\ pc' = IF Len(frames) = 1 THEN "done" ELSE "call"
    /\ UNCHANGED <<loop, attempt, log, returned, raised, callee, httpVars,
                   retryVars, chdirVars, genVars>>

(* --------------------------- specification ----------------------------- *)

Next ==
    \/ ForNext
    \/ ForExhausted
    \/ RequestSucceeds
    \/ RequestHTTPError
    \/ RequestRaises
    \/ ExceptClient
    \/ ExceptServer
    \/ SleepDone
    \/ FixedForNext
    \/ FixedForElse
    \/ FixedRequestSucceeds
    \/ FixedRequestHTTPError
    \/ FixedRequestRaises
    \/ FixedExceptClient
    \/ FixedExceptServer
    \/ FixedWait
    \/ FixedNoWait
    \/ FixedSleepDone
    \/ WrapperForNext
    \/ WrapperForEnd
    \/ FuncReturns
    \/ FuncRaises
    \/ WrapperReraise
    \/ WrapperSwallow
    \/ CdEnter
    \/ CdEnterFails
    \/ BlockChdir
    \/ BlockEnds
    \/ BlockRaises
    \/ NextYields
    \/ NextStops
    \/ GenForStart
    \/ GenForIteration
    \/ GenForEnd
    \/ OuterNext
    \/ OuterEnd
    \/ DistinctLoopStart
    \/ InnerIter
    \/ InnerNext
    \/ InnerEnd
    \/ WrapperBefore
    \/ FunctionBody
    \/ WrapperAfter

Spec == Init /\ [][Next]_vars

\* every step that can be taken is eventually taken: each requests.get
\* call and each time.sleep call returns
FairSpec == Spec /\ WF_vars(Next)

TypeOK ==
    /\ loop \in Programs
    /\ max_retries \in 0..MaxRetriesBound
    /\ max_attempts \in 0..MaxAttemptsBound
    /\ pc \in {"for", "try", "except", "if", "sleep", "returned", "raised",
               "done", "with", "block", "idle", "call", "outer",
               "inner_iter", "inner", "between"}
    /\ loop = "chdir" => (cwd \in dirs /\ start_dir \in dirs)
    /\ loop = "count" => count_gen.n \in 0..(limit + 1)
    /\ nexts \in 0..MaxNexts
    /\ stops \in 0..nexts
    /\ loop \in {"backoff", "fixed"} =>
          /\ attempt \in 0..max_retries
          /\ delay \in 1..MaxDelay
    /\ loop = "retry" => attempt \in 0..max_attempts
    /\ loop = "nested" => /\ outer_it \in 1..Len(gens)
                          /\ inner_it \in 0..Len(gens)
                          /\ num \in 0..limit
                          /\ nest \in {1, 2}
    /\ loop \in {"backoff", "fixed", "retry"} =>
          Len(log) = attempt - (IF pc = "try" THEN 1 ELSE 0)

(* ------------------------------ claims --------------------------------- *)

RECURSIVE Pow2(_)
Pow2(n) == IF n <= 0 THEN 1 ELSE 2 * Pow2(n - 1)

\* outcome o is a response with a status of the given class
IsSuccess(o) == o.kind = "response" /\ o.status < 400
IsFatal(o) == o.kind = "response" /\ 400 <= o.status /\ o.status < 500
IsRetryable(o) == o.kind = "response" /\ o.status >= 500

\* the first k attempts all ended in a retryable failure
FirstRetryable(k) == \A i \in 1..k : IsRetryable(log[i])

\* every attempt made so far ended in a retryable failure
AllRetryable == FirstRetryable(Len(log))

\* get_with_backoff has run out of attempts
Exhausted ==
    /\ loop = "backoff"
    /\ pc = "raised"
    /\ Len(log) = max_retries
    /\ AllRetryable

\* C1: in get_with_backoff with max_retries >= 1, when the first response is
\* a client error (400..499) exactly one request is issued, no sleep is
\* performed and the client-error failure is raised at once
C1_FatalFirstStops ==
    (/\ loop = "backoff"
     /\ max_retries >= 1
     /\ Len(log) >= 1
     /\ IsFatal(log[1]))
    => /\ Len(log) = 1
       /\ sleeps = <<>>
       /\ pc \in {"except", "raised"}
       /\ pc = "raised" => /\ raised.type = "RuntimeError"
                           /\ raised.msg = <<ClientErrorMsg>>

C1_Witness ==
    /\ loop = "backoff"
    /\ max_retries >= 2
    /\ pc = "raised"
    /\ Len(log) = 1
    /\ IsFatal(log[1])
    /\ sleeps = <<>>

\* C2: in get_with_backoff, when every attempt ends in a retryable failure
\* (status >= 500), never more than max_retries requests are issued, the
\* call never returns, and it raises only after exactly max_retries
\* requests, with the exhausted-retries error
C2_ExhaustsAfterMaxRetries ==
    (loop = "backoff" /\ AllRetryable)
    => /\ Len(log) <= max_retries
       /\ pc # "returned"
       /\ pc = "raised" => /\ Len(log) = max_retries
                           /\ raised.type = "RuntimeError"
                           /\ raised.msg = ExhaustedMsg(Url)

C2_Witness ==
    /\ Exhausted
    /\ max_retries >= 3
    /\ raised.msg = ExhaustedMsg(Url)

\* C3: in get_with_backoff, for every k with 0 <= k < max_retries, when the
\* first k responses are retryable failures and response k+1 is a success,
\* exactly k+1 requests are issued and the response of request k+1 is
\* returned
C3_SuccessAfterKFailures ==
    loop = "backoff" =>
    \A k \in 0..(max_retries - 1) :
        (/\ Len(log) >= k + 1
         /\ FirstRetryable(k)
         /\ IsSuccess(log[k + 1]))
        => /\ Len(log) = k + 1
           /\ pc = "returned"
           /\ returned = log[k + 1]
           /\ returned.req = k + 1

C3_Witness ==
    /\ loop = "backoff"
    /\ pc = "returned"
    /\ Len(log) = 3
    /\ FirstRetryable(2)
    /\ IsSuccess(log[3])
    /\ returned = log[3]

\* C4: in get_with_backoff a sleep is performed only between two attempts:
\* none after the retryable failure of attempt max_retries, so an exhausted
\* run performs exactly max_retries - 1 sleeps
C4_NoSleepAfterFinalAttempt ==
    (loop = "backoff" /\ max_retries >= 1)
    => /\ \A i \in 1..Len(sleeps) : sleeps[i].after < max_retries
       /\ Exhausted => Len(sleeps) = max_retries - 1

\* C5: in get_with_backoff the pre-jitter wait computed after attempt n
\* equals min(1 * 2^(n-1), 30) seconds
C5_PreJitterWaitIsPowerOfTwo ==
    loop = "backoff" =>
    \A i \in 1..Len(sleeps) :
        sleeps[i].wait - sleeps[i].jitter
            = Min(BaseDelay * Pow2(sleeps[i].after - 1), MaxDelay) * Scale

\* C6: in get_with_backoff every slept duration lies within
\* [0.9 * b, 1.1 * b], b = min(delay * 2, 30) being the pre-jitter wait of
\* that step, and is never negative
C6_WaitWithinTenPercent ==
    loop = "backoff" =>
    \A i \in 1..Len(sleeps) :
        LET b == Min(sleeps[i].delay * 2, 30) * Scale
        IN  /\ 9 * b <= 10 * sleeps[i].wait
            /\ 10 * sleeps[i].wait <= 11 * b
            /\ sleeps[i].wait >= 0

C6_Witness ==
    /\ loop = "backoff"
    /\ \E i \in 1..Len(sleeps) :
          /\ sleeps[i].delay = 16
          /\ sleeps[i].jitter < 0
          /\ sleeps[i].wait < 30 * Scale
          /\ 10 * sleeps[i].wait > 9 * 30 * Scale

\* C7: get_with_backoff with max_retries = 4 and four retryable failures
\* performs exactly three waits, within 10% of 1 s, 2 s and 4 s, and no wait
\* after the fourth attempt
C7_WaitsOneTwoFour ==
    (Exhausted /\ max_retries = 4)
    => /\ Len(sleeps) = 3
       /\ \A i \in 1..Len(sleeps) :
             /\ sleeps[i].after = i
             /\ i <= 3
             /\ 9 * Pow2(i - 1) * Scale <= 10 * sleeps[i].wait
             /\ 10 * sleeps[i].wait <= 11 * Pow2(i - 1) * Scale

\* C8: in both retry loops an attempt that fails with a network exception
\* while attempts remain does not terminate the loop with that exception
C8_NetworkExceptionRetried ==
    (/\ loop \in {"backoff", "fixed"}
     /\ Len(log) >= 1
     /\ log[Len(log)].kind \in NetworkExceptions
     /\ Len(log) < max_retries)
    => ~(pc = "raised" /\ raised.type \in NetworkExceptions)

\* C9 (as claimed): when get_with_backoff exhausts its attempts, the raised
\* error carries the failure of the final attempt
C9_ExhaustedWrapsLastCause ==
    (Exhausted /\ Len(log) >= 1) => raised.context = log[Len(log)]

\* C9 (amended): when get_with_backoff exhausts its attempts, the raised
\* error is a RuntimeError whose message names only the url, and it carries
\* no cause: the failure of the final attempt cannot be recovered from it
C9_ExhaustedCarriesNoCause ==
    Exhausted => /\ raised.type = "RuntimeError"
                 /\ raised.msg = ExhaustedMsg(Url)
                 /\ raised.context = NoResponse

C9_Witness ==
    /\ Exhausted
    /\ max_retries >= 2
    /\ log[Len(log)].status = 599
    /\ raised.context = NoResponse

\* C10: for every status s an attempt of get_with_backoff receives: s < 400
\* is a success (returned, no wait), 400 <= s < 500 is fatal (raised, no
\* retry, no wait), s >= 500 takes the wait/retry path; every status is in
\* one of the three classes
C10_StatusClasses ==
    (/\ loop = "backoff"
     /\ Len(log) >= 1
     /\ log[Len(log)].kind = "response")
    => LET n == Len(log)
           s == log[n].status
       IN  /\ s < 400 =>
                /\ pc = "returned"
                /\ returned = log[n]
                /\ Len(sleeps) = n - 1
           /\ (400 <= s /\ s < 500) =>
                /\ pc \in {"except", "raised"}
                /\ Len(sleeps) = n - 1
                /\ pc = "raised" => raised.msg = <<ClientErrorMsg>>
           /\ s >= 500 =>
                /\ pc \in {"except", "sleep", "for", "try", "raised"}
                /\ pc # "except" => /\ Len(sleeps) = n
                                    /\ sleeps[n].after = n
                /\ pc = "raised" => raised.msg = ExhaustedMsg(Url)
           /\ (s < 400 \/ (400 <= s /\ s < 500) \/ s >= 500)

C10_Witness ==
    /\ loop = "backoff"
    /\ pc = "raised"
    /\ Len(log) = 2
    /\ log[1].status = 500
    /\ log[2].status = 499
    /\ Len(sleeps) = 1

\* C11: in get_with_backoff the delay is never negative, every update
\* leaves it at least as large as it was, and it stays within 1..30
C11_DelayMonotone ==
    [][loop = "backoff" => /\ delay >= 0
                           /\ delay' >= delay
                           /\ delay \in 1..30
                           /\ delay' \in 1..30]_vars

C11_Witness ==
    /\ loop = "backoff"
    /\ pc = "for"
    /\ Len(sleeps) = 5
    /\ sleeps[5].delay = 16
    /\ delay = 30

\* C12: in get_with_backoff and in the fixed-delay loop the attempt counter,
\* once the loop has bound it, satisfies 1 <= attempt <= max_retries, and no
\* request is issued with attempt > max_retries
C12_AttemptWithinBudget ==
    loop \in {"backoff", "fixed"} =>
       /\ attempt = 0 => (log = <<>> /\ out = <<>>)
       /\ attempt # 0 => (1 <= attempt /\ attempt <= max_retries)
       /\ pc = "try" => (1 <= attempt /\ attempt <= max_retries)
       /\ \A i \in 1..Len(log) : log[i].req <= max_retries

C12_Witness ==
    /\ loop = "backoff"
    /\ pc = "try"
    /\ max_retries >= 3
    /\ attempt = max_retries

\* C13: get_with_backoff drops no error: it returns only the response of a
\* successful attempt, a failed attempt is the last one only while it is
\* being handled or when an error has been raised, and the call ends in no
\* other way than a return or a raised error
C13_NoErrorDropped ==
    loop = "backoff" =>
       /\ pc = "returned" => /\ Len(log) >= 1
                             /\ IsSuccess(log[Len(log)])
                             /\ returned = log[Len(log)]
                             /\ raised = NoError
       /\ pc = "raised" => raised.type # "None"
       /\ pc # "done"
       /\ (Len(log) >= 1 /\ ~IsSuccess(log[Len(log)]))
             => pc \in {"except", "sleep", "for", "try", "raised"}

C13_Witness ==
    /\ loop = "backoff"
    /\ pc = "raised"
    /\ Len(log) = 2
    /\ IsRetryable(log[1])
    /\ log[2].kind \in NetworkExceptions
    /\ raised.type = log[2].kind

\* the call of get_with_backoff is over
Terminated == loop = "backoff" /\ pc \in {"returned", "raised"}

\* C14: with every request and every sleep completing, get_with_backoff
\* reaches a terminal outcome after at most max_retries attempts, the
\* outcome is either a return or a raised error and not both, and nothing
\* happens after it
C14_Terminates ==
    /\ (loop = "backoff") ~> (Terminated /\ Len(log) <= max_retries)
    /\ [](Terminated => (returned = NoResponse) # (raised = NoError))
    /\ [][Terminated => vars' = vars]_vars

C14_Witness ==
    /\ Terminated
    /\ pc = "returned"
    /\ max_retries >= 4
    /\ Len(log) = max_retries

\* C17: the fixed-delay loop stops at the first attempt that succeeds or
\* fails with a client error: no request and no wait follows that attempt
C17_FixedStopsAtFirstFinal ==
    loop = "fixed" =>
    \A k \in 1..Len(log) :
        (IsSuccess(log[k]) \/ IsFatal(log[k]))
        => /\ Len(log) = k
           /\ pc \in {"except", "done"}
           /\ IsSuccess(log[k]) => pc = "done"
           /\ \A i \in 1..Len(sleeps) : sleeps[i].after < k

C17_Witness ==
    /\ loop = "fixed"
    /\ pc = "done"
    /\ Len(log) = 2
    /\ IsFatal(log[2])
    /\ Len(sleeps) = 1

\* C15: the wrapper of retry(max_attempts), max_attempts >= 1, never calls
\* the function more than max_attempts times, stops at the first call that
\* returns, returns that call's value, and does not stop before that call
\* while attempts remain
C15_RetryUntilFirstSuccess ==
    (loop = "retry" /\ max_attempts >= 1) =>
       /\ Len(log) <= max_attempts
       /\ \A k \in 1..Len(log) :
             log[k].kind = "return" => /\ Len(log) = k
                                       /\ pc = "returned"
                                       /\ returned = log[k]
       /\ pc = "returned" => /\ Len(log) >= 1
                             /\ log[Len(log)].kind = "return"
       /\ pc = "raised" => Len(log) = max_attempts

C15_Witness ==
    /\ loop = "retry"
    /\ max_attempts = 4
    /\ pc = "returned"
    /\ Len(log) = 3
    /\ log[1].kind = "exception"
    /\ log[2].kind = "exception"
    /\ returned = log[3]

\* C16: when all max_attempts calls made by the wrapper of retry raise,
\* the exception that leaves the wrapper is the one of the last call; the
\* exception of an earlier call never leaves it
C16_LastExceptionPropagates ==
    (loop = "retry" /\ max_attempts >= 1) =>
       /\ (/\ Len(log) = max_attempts
           /\ \A i \in 1..Len(log) : log[i].kind = "exception"
           /\ pc # "except")
          => /\ pc = "raised"
             /\ raised = log[max_attempts].exc
       /\ pc = "raised" =>
             /\ Len(log) = max_attempts
             /\ raised = log[Len(log)].exc
             /\ \A i \in 1..(Len(log) - 1) : raised # log[i].exc

C16_Witness ==
    /\ loop = "retry"
    /\ max_attempts = 3
    /\ pc = "raised"
    /\ Len(log) = 3
    /\ log[1].exc.type # log[3].exc.type
    /\ raised.call = 3

\* C18: whenever the with statement of change_directory(destination) has
\* been left, normally or by an exception, the working directory is the
\* one at entry
C18_CwdRestored ==
    (loop = "chdir" /\ pc \in {"done", "raised"}) => cwd = start_dir

C18_Witness ==
    /\ loop = "chdir"
    /\ pc = "raised"
    /\ raised.type \in BlockExceptions
    /\ destination = TempDir
    /\ destination # start_dir
    /\ cwd = start_dir

\* the generator of count_up_to has run to the end of its body
GenFinished == loop = "count" /\ count_gen.state = "finished"

\* C19: a generator of count_up_to(limit) yields 1, 2, ..., limit in this
\* order, each once; once finished it stays finished, yields nothing more,
\* answers every next() with StopIteration and gives a for loop no
\* iteration
C19_CountUpToExhausts ==
    /\ [](loop = "count" =>
             /\ Len(log) <= limit
             /\ \A i \in 1..Len(log) : log[i] = i
             /\ count_gen.state = "finished" => Len(log) = limit)
    /\ [][GenFinished => /\ count_gen' = count_gen
                         /\ log' = log
                         /\ iters' <= iters
                         /\ nexts' # nexts => stops' = stops + 1]_vars

C19_Witness ==
    /\ GenFinished
    /\ limit = 3
    /\ log = <<1, 2, 3>>
    /\ pc = "idle"
    /\ stops = 2
    /\ iters = 0
    /\ \E i \in 1..Len(out) : out[i] = <<"number", 1>>

\* what a call of foo and of bar prints, in order
StackedOutput ==
    [foo |-> << <<"A", "before">>, <<"B", "before">>,
                <<"inside function", "foo">>,
                <<"B", "after">>, <<"A", "after">> >>,
     bar |-> << <<"B", "before">>, <<"A", "before">>,
                <<"inside function", "bar">>,
                <<"A", "after">>, <<"B", "after">> >>]

\* C20: a call of foo (decorator_A above decorator_B) produces A before,
\* B before, the body, B after, A after; a call of bar, with the two
\* decorators swapped, the same with A and B swapped; the body runs once
C20_StackedOrder ==
    loop = "stack" =>
       /\ Len(out) <= 5
       /\ out = SubSeq(StackedOutput[callee], 1, Len(out))
       /\ pc = "done" => out = StackedOutput[callee]

C20_Witness ==
    /\ loop = "stack"
    /\ callee = "bar"
    /\ pc = "done"
    /\ Len(out) = 5
    /\ out[3] = <<"inside function", "bar">>
    /\ out[1] = <<"B", "before">>

\* the fixed-delay loop has printed "All {max_retries} attempts failed!"
AllFailedPrinted == \E i \in 1..Len(out) : out[i] = "all_failed"

\* the fixed-delay loop is over
FixedOver == loop = "fixed" /\ pc \in {"done", "raised"}

\* C21: the fixed-delay loop prints "All {max_retries} attempts failed!"
\* only when each of its max_retries attempts ended in a server error, it
\* prints it whenever a run of max_retries server errors is over, at most
\* once, and never when the last attempt was a success or a client error
C21_AllFailedIffAllServerErrors ==
    loop = "fixed" =>
       /\ AllFailedPrinted => /\ pc = "done"
                              /\ Len(log) = max_retries
                              /\ AllRetryable
       /\ (FixedOver /\ Len(log) = max_retries /\ AllRetryable)
             => AllFailedPrinted
       /\ (/\ Len(log) >= 1
           /\ IsSuccess(log[Len(log)]) \/ IsFatal(log[Len(log)]))
             => ~AllFailedPrinted
       /\ Cardinality({i \in 1..Len(out) : out[i] = "all_failed"}) <= 1

C21_Witness ==
    /\ FixedOver
    /\ AllFailedPrinted
    /\ Len(log) = 3
    /\ log[1].status = 500
    /\ log[3].status = 599

\* C22: in the fixed-delay loop every wait lasts exactly 2 s, wait number i
\* follows the server error of attempt i with i < max_retries and is
\* followed by an attempt, and a run whose attempts all fail performs
\* exactly max_retries - 1 waits
C22_FixedWaits ==
    loop = "fixed" =>
       /\ \A i \in 1..Len(sleeps) :
             /\ sleeps[i].wait = 2 * Scale
             /\ sleeps[i].after = i
             /\ sleeps[i].after < max_retries
             /\ IsRetryable(log[sleeps[i].after])
       /\ pc = "sleep" => /\ Len(sleeps) = attempt
                          /\ attempt < max_retries
       /\ (Len(log) = max_retries /\ AllRetryable)
             => Len(sleeps) = max_retries - 1
       /\ AllFailedPrinted => Len(sleeps) = max_retries - 1

C22_Witness ==
    /\ loop = "fixed"
    /\ pc = "done"
    /\ AllFailedPrinted
    /\ Len(sleeps) = 2
    /\ sleeps[2].after = 2
    /\ sleeps[2].wait = 2 * Scale

\* C23: in get_with_backoff requests and sleeps alternate: request number
\* k is issued with exactly k - 1 sleeps done, sleep number i follows the
\* retryable failure of attempt i, a request is never issued during a sleep
\* or during another request, and a sleep never follows a sleep
C23_AttemptsAlternateWithSleeps ==
    /\ [](loop = "backoff" =>
             /\ \A i \in 1..Len(sleeps) : /\ sleeps[i].after = i
                                          /\ IsRetryable(log[i])
             /\ \A i \in 1..Len(log) : log[i].req = i
             /\ pc = "try" => /\ Len(log) = attempt - 1
                              /\ Len(sleeps) = attempt - 1
             /\ pc = "sleep" => Len(sleeps) = Len(log)
             /\ Len(sleeps) <= Len(log)
             /\ Len(log) <= Len(sleeps) + 1)
    /\ [][loop = "backoff" =>
             /\ log' # log => /\ Len(log') = Len(log) + 1
                              /\ Len(sleeps) = Len(log)
                              /\ pc = "try"
                              /\ pc' # "try"
                              /\ sleeps' = sleeps
             /\ sleeps' # sleeps => /\ Len(sleeps') = Len(sleeps) + 1
                                    /\ Len(log) = Len(sleeps) + 1
                                    /\ pc' = "sleep"
                                    /\ log' = log
             /\ pc = "sleep" => pc' = "for"]_vars

C23_Witness ==
    /\ loop = "backoff"
    /\ pc = "try"
    /\ attempt = 3
    /\ Len(sleeps) = 2
    /\ sleeps[2].after = 2

\* C24: in get_with_backoff the duration slept after a retryable failure
\* lies within 10% of the value d the delay variable has at that moment
C24_WaitWithinTenPercentOfDelay ==
    loop = "backoff" =>
    \A i \in 1..Len(sleeps) :
        LET d == sleeps[i].delay * Scale
        IN  /\ 9 * d <= 10 * sleeps[i].wait
            /\ 10 * sleeps[i].wait <= 11 * d

\* the pairs (1,2), (1,3), ..., (1,lim)
SharedPairs(lim) ==
    [i \in 1..(IF lim >= 1 THEN lim - 1 ELSE 0) |-> <<1, i + 1>>]

\* the lim*lim pairs (1,1), ..., (1,lim), (2,1), ..., (lim,lim)
DistinctPairs(lim) ==
    [i \in 1..(lim * lim) |-> <<((i - 1) \div lim) + 1, ((i - 1) % lim) + 1>>]

\* C25: with one generator object of count_up_to(limit), limit >= 1, as
\* the iterable of an outer and of a nested inner for loop, the outer body
\* runs once, with the value 1, and the pairs printed are (1,2), ...,
\* (1,limit) in this order; with distinct generator objects the outer body
\* runs limit times and the pairs are the limit*limit ones, in order
C25_NestedLoopsOverGenerators ==
    loop = "nested" =>
       /\ nest = 1 =>
             /\ log = SubSeq(SharedPairs(limit), 1, Len(log))
             /\ iters <= 1
             /\ pc # "outer" => num = iters
             /\ pc = "between" => /\ log = SharedPairs(limit)
                                  /\ limit >= 1 => iters = 1
       /\ nest = 2 =>
             /\ Len(log) <= Len(SharedPairs(limit)) + limit * limit
             /\ log = SubSeq(SharedPairs(limit) \o DistinctPairs(limit),
                             1, Len(log))
             /\ iters <= limit
       /\ pc = "done" =>
             /\ log = SharedPairs(limit) \o DistinctPairs(limit)
             /\ iters = limit

C25_Witness ==
    /\ loop = "nested"
    /\ pc = "done"
    /\ limit = 3
    /\ Len(log) = 11
    /\ log[1] = <<1, 2>>
    /\ log[2] = <<1, 3>>
    /\ log[3] = <<1, 1>>
    /\ log[11] = <<3, 3>>

\* the sleeps of get_with_backoff that have returned
CompletedSleeps == Len(sleeps) - (IF pc = "sleep" THEN 1 ELSE 0)

\* C26: in get_with_backoff the delay is min(2^k, 30) after k retryable
\* failures whose sleep is over, whatever jitter was drawn and whatever 5xx
\* codes were received; drawing the jitter leaves the delay as it is, and
\* the new delay is computed from the old one alone
C26_DelayDeterministic ==
    /\ [](loop = "backoff" =>
             /\ delay = Min(Pow2(CompletedSleeps), 30)
             /\ pc = "try" => CompletedSleeps = Len(log))
    /\ [][loop = "backoff" =>
             /\ sleeps' # sleeps => delay' = delay
             /\ delay' # delay => /\ sleeps' = sleeps
                                  /\ delay' = Min(delay * 2, 30)]_vars

C26_Witness ==
    /\ loop = "backoff"
    /\ pc = "try"
    /\ Len(sleeps) = 3
    /\ sleeps[1].jitter < 0
    /\ sleeps[2].jitter > 0
    /\ log[1].status = 500
    /\ log[2].status = 599
    /\ delay = 8

====
